---- MODULE Spec2Model ----
(***************************************************************************)
(* Model of backend/server.py: the three-way matching engine               *)
(* (perform_three_way_match) run line by line, and the request handlers    *)
(* that create documents and verify them against the stores.               *)
(*                                                                         *)
(* Numbers: the Python code works on floats.  The model takes integer      *)
(* field values and computes the ratios as exact rationals <<n, d>> in     *)
(* lowest terms, so a ratio of exactly 1/20 is the tolerance 0.05 (the     *)
(* correctly rounded float quotient of such a ratio is the float 0.05).    *)
(* Descriptions are sequences of character codes, so that str.lower() is   *)
(* computed and not assumed.                                               *)
(***************************************************************************)
EXTENDS Integers, Sequences, FiniteSets, TLC

VARIABLES
    \* perform_three_way_match: arguments, locals, returned value
    invoice, po, gr,            \* the three documents' line_items
    pc,                         \* "idle" | "loop" | "done"
    idx,                        \* number of invoice lines processed
    po_match, gr_match,         \* index of the matched line, 0 for None
    line_matches,
    total_variance, price_variance, quantity_variance,
    overall_status,
    result,
    \* the database collections and the /api/verify request in flight
    invoices, purchase_orders, goods_receipts, verification_results,
    next_id,                    \* stands for uuid.uuid4(): ids never repeat
    req,
    response

engineVars == <<invoice, po, gr, pc, idx, po_match, gr_match, line_matches,
                total_variance, price_variance, quantity_variance,
                overall_status, result>>
apiVars == <<invoices, purchase_orders, goods_receipts, verification_results,
             next_id, req, response>>
vars == <<engineVars, apiVars>>

----------------------------------------------------------------------------
(* Bounds of the model *)

\* line items of the invoice, the PO and the GR of one run, taken together
MaxLines == 4
MaxDocs == 3
MaxVerifies == 2

----------------------------------------------------------------------------
(* Exact rationals standing for the float ratios *)

Abs(x) == IF x < 0 THEN -x ELSE x

RECURSIVE GCD(_, _)
GCD(a, b) == IF b = 0 THEN a ELSE GCD(b, a % b)

\* n / d in lowest terms with a positive denominator (d # 0)
Rat(n, d) ==
    LET s == IF d < 0 THEN -1 ELSE 1
        g == GCD(Abs(n), Abs(d))
    IN  <<(s * n) \div g, (s * d) \div g>>

RatZero == <<0, 1>>
RatAdd(a, b) == Rat(a[1] * b[2] + b[1] * a[2], a[2] * b[2])
RatScale(a, k) == Rat(a[1] * k, a[2])
RatGt(a, b) == a[1] * b[2] > b[1] * a[2]

\* tolerance = 0.05
tolerance == <<1, 20>>

----------------------------------------------------------------------------
(* str.lower() on character codes: 'A'..'Z' map to 'a'..'z' *)

Lower(s) == [i \in DOMAIN s |-> IF s[i] \in 65..90 THEN s[i] + 32 ELSE s[i]]

(* for x_item in items: if x_item.description.lower() == desc.lower(): break *)
RECURSIVE ScanNoBreak(_, _, _)
ScanNoBreak(items, desc, k) ==
    IF k > Len(items) THEN 0
    ELSE LET rest == ScanNoBreak(items, desc, k + 1)
         IN  IF rest # 0 THEN rest
             ELSE IF Lower(items[k].description) = Lower(desc) THEN k ELSE 0

RECURSIVE Scan(_, _, _)
Scan(items, desc, k) ==
    IF k > Len(items) THEN 0
    ELSE IF Lower(items[k].description) = Lower(desc) THEN k
    ELSE Scan(items, desc, k + 1)

FindMatch(items, desc) == Scan(items, desc, 1)

----------------------------------------------------------------------------
(* Variances of one invoice line against its PO and GR matches *)

PriceDiffNonZero(inv_item, po_item) ==
    IF po_item.unit_price # 0
    THEN Rat(Abs(inv_item.unit_price - po_item.unit_price), po_item.unit_price)
    ELSE RatZero

PriceDiff(inv_item, po_item) ==
    IF po_item.unit_price > 0
    THEN Rat(Abs(inv_item.unit_price - po_item.unit_price), po_item.unit_price)
    ELSE RatZero

QtyDiff(inv_item, gr_item) ==
    IF gr_item.quantity > 0
    THEN Rat(Abs(inv_item.quantity - gr_item.quantity), gr_item.quantity)
    ELSE RatZero

AmountDiff(inv_item, po_item, gr_item) ==
    Abs(inv_item.amount - (po_item.unit_price * gr_item.quantity))

\* overall_status = "warning" if overall_status == "pass" else "fail"
EscalateAlwaysWarning(status) == "warning"

Escalate(status) == IF status = "pass" THEN "warning" ELSE "fail"

\* the two independent threshold checks; the second write wins
StatusPriceFirst(price_diff, qty_diff) ==
    IF RatGt(price_diff, tolerance) THEN "price_variance"
    ELSE IF RatGt(qty_diff, tolerance) THEN "quantity_variance"
    ELSE "pass"

VarianceStatus(price_diff, qty_diff) ==
    LET s1 == IF RatGt(price_diff, tolerance) THEN "price_variance" ELSE "pass"
    IN  IF RatGt(qty_diff, tolerance) THEN "quantity_variance" ELSE s1

VarianceOverallOncePerLine(price_diff, qty_diff, status) ==
    IF RatGt(price_diff, tolerance) \/ RatGt(qty_diff, tolerance)
    THEN Escalate(status) ELSE status

VarianceOverall(price_diff, qty_diff, status) ==
    LET o1 == IF RatGt(price_diff, tolerance) THEN Escalate(status) ELSE status
    IN  IF RatGt(qty_diff, tolerance) THEN Escalate(o1) ELSE o1

(* One iteration of the loop over invoice.line_items: the locals after it *)
MatchLine(inv_item, po_items, gr_items, status) ==
    LET pm == FindMatch(po_items, inv_item.description)
        gm == FindMatch(gr_items, inv_item.description)
    IN  IF pm # 0 /\ gm # 0
        THEN LET pd == PriceDiff(inv_item, po_items[pm])
                 qd == QtyDiff(inv_item, gr_items[gm])
             IN  [po_match |-> pm, gr_match |-> gm,
                  price_diff |-> pd, qty_diff |-> qd,
                  amount_diff |-> AmountDiff(inv_item, po_items[pm], gr_items[gm]),
                  match_status |-> VarianceStatus(pd, qd),
                  overall_status |-> VarianceOverall(pd, qd, status)]
        ELSE [po_match |-> pm, gr_match |-> gm,
              price_diff |-> RatZero, qty_diff |-> RatZero, amount_diff |-> 0,
              match_status |-> "no_match",
              overall_status |-> "fail"]

\* line_matches.append({...})
RecordFromPO(inv_item, po_items, gr_items, m) ==
    [description |-> IF m.po_match # 0 THEN po_items[m.po_match].description
                     ELSE inv_item.description,
     invoice_qty |-> inv_item.quantity,
     invoice_price |-> inv_item.unit_price,
     invoice_amount |-> inv_item.amount,
     po_qty |-> IF m.po_match # 0 THEN po_items[m.po_match].quantity ELSE 0,
     po_price |-> IF m.po_match # 0 THEN po_items[m.po_match].unit_price ELSE 0,
     gr_qty |-> IF m.gr_match # 0 THEN gr_items[m.gr_match].quantity ELSE 0,
     price_variance_pct |-> RatScale(m.price_diff, 100),
     quantity_variance_pct |-> RatScale(m.qty_diff, 100),
     amount_variance |-> m.amount_diff,
     status |-> m.match_status]

MatchRecord(inv_item, po_items, gr_items, m) ==
    [description |-> inv_item.description,
     invoice_qty |-> inv_item.quantity,
     invoice_price |-> inv_item.unit_price,
     invoice_amount |-> inv_item.amount,
     po_qty |-> IF m.po_match # 0 THEN po_items[m.po_match].quantity ELSE 0,
     po_price |-> IF m.po_match # 0 THEN po_items[m.po_match].unit_price ELSE 0,
     gr_qty |-> IF m.gr_match # 0 THEN gr_items[m.gr_match].quantity ELSE 0,
     price_variance_pct |-> RatScale(m.price_diff, 100),
     quantity_variance_pct |-> RatScale(m.qty_diff, 100),
     amount_variance |-> m.amount_diff,
     status |-> m.match_status]

\* total_variance += amount_diff ; price_variance += price_diff ; ...
AccumulateLast(acc, d) == d

Accumulate(acc, d) == RatAdd(acc, d)

\* the accumulators before the loop
EngineStart ==
    [line_matches |-> <<>>, total_variance |-> RatZero,
     price_variance |-> RatZero, quantity_variance |-> RatZero,
     overall_status |-> "pass", po_match |-> 0, gr_match |-> 0]

\* the accumulators after one more invoice line
LineStep(acc, inv_item, po_items, gr_items) ==
    LET m == MatchLine(inv_item, po_items, gr_items, acc.overall_status)
    IN  [line_matches |-> Append(acc.line_matches,
                                 MatchRecord(inv_item, po_items, gr_items, m)),
         total_variance |-> Accumulate(acc.total_variance, <<m.amount_diff, 1>>),
         price_variance |-> Accumulate(acc.price_variance, m.price_diff),
         quantity_variance |-> Accumulate(acc.quantity_variance, m.qty_diff),
         overall_status |-> m.overall_status,
         po_match |-> m.po_match, gr_match |-> m.gr_match]

\* return VerificationResult(...): id and timestamps left out
MakeResult(acc) ==
    [overall_status |-> acc.overall_status,
     line_item_matches |-> acc.line_matches,
     total_variance |-> acc.total_variance,
     price_variance |-> acc.price_variance,
     quantity_variance |-> acc.quantity_variance]

RECURSIVE RunLines(_, _, _, _, _)
RunLines(acc, inv_items, po_items, gr_items, k) ==
    IF k > Len(inv_items) THEN acc
    ELSE RunLines(LineStep(acc, inv_items[k], po_items, gr_items),
                  inv_items, po_items, gr_items, k + 1)

\* the whole call, as the request handler uses it
perform_three_way_match(inv_items, po_items, gr_items) ==
    MakeResult(RunLines(EngineStart, inv_items, po_items, gr_items, 1))

----------------------------------------------------------------------------
(* Inputs of the engine: line items with integer field values *)

Item(d, q, p) == [description |-> d, quantity |-> q, unit_price |-> p, amount |-> q * p]

\* "a" and "B" on invoices, "A" and "b" on the other documents
InvItems ==
    { Item(<<97>>, 20, 100),    \* agrees with A at 100 and A received 20
      Item(<<97>>, 21, 105),    \* price and quantity exactly 5% over
      Item(<<97>>, 20, 106),    \* price 6% over
      Item(<<97>>, 22, 100),    \* quantity 10% over
      Item(<<97>>, 22, 106),    \* price 6% over and quantity 10% over
      Item(<<66>>, 20, 100) }
POItems ==
    { Item(<<65>>, 20, 100), Item(<<65>>, 20, 0),
      Item(<<98>>, 20, 100), Item(<<98>>, 20, -100) }
GRItems ==
    { Item(<<65>>, 20, 100), Item(<<65>>, 0, 100),
      Item(<<98>>, 20, 100), Item(<<98>>, -20, 100) }

SeqsUpTo(S, n) == UNION { [1..k -> S] : k \in 0..n }

----------------------------------------------------------------------------
(* perform_three_way_match, one invoice line per step *)

ApiIdle ==
    /\ invoices = <<>> /\ purchase_orders = <<>> /\ goods_receipts = <<>>
    /\ verification_results = <<>>
    /\ next_id = 1
    /\ req = [pc |-> "none"]
    /\ response = 0

NoResult == [overall_status |-> "none"]

Init ==
    /\ invoice \in SeqsUpTo(InvItems, MaxLines)
    /\ po \in SeqsUpTo(POItems, MaxLines - Len(invoice))
    /\ gr \in SeqsUpTo(GRItems, MaxLines - Len(invoice) - Len(po))
    /\ pc = "loop"
    /\ idx = 0
    /\ po_match = EngineStart.po_match
    /\ gr_match = EngineStart.gr_match
    /\ line_matches = EngineStart.line_matches
    /\ total_variance = EngineStart.total_variance
    /\ price_variance = EngineStart.price_variance
    /\ quantity_variance = EngineStart.quantity_variance
    /\ overall_status = EngineStart.overall_status
    /\ result = NoResult
    /\ ApiIdle

Locals ==
    [line_matches |-> line_matches, total_variance |-> total_variance,
     price_variance |-> price_variance, quantity_variance |-> quantity_variance,
     overall_status |-> overall_status, po_match |-> po_match, gr_match |-> gr_match]

\* for inv_item in invoice.line_items: ...
ProcessLine ==
    /\ pc = "loop"
    /\ idx < Len(invoice)
    /\ LET n == LineStep(Locals, invoice[idx + 1], po, gr)
       IN  /\ line_matches' = n.line_matches
           /\ total_variance' = n.total_variance
           /\ price_variance' = n.price_variance
           /\ quantity_variance' = n.quantity_variance
           /\ overall_status' = n.overall_status
           /\ po_match' = n.po_match
           /\ gr_match' = n.gr_match
    /\ idx' = idx + 1
    /\ UNCHANGED <<invoice, po, gr, pc, result>>
    /\ UNCHANGED apiVars

\* return VerificationResult(...)
Return ==
    /\ pc = "loop"
    /\ idx = Len(invoice)
    /\ result' = MakeResult(Locals)
    /\ pc' = "done"
    /\ UNCHANGED <<invoice, po, gr, idx, po_match, gr_match, line_matches,
                   total_variance, price_variance, quantity_variance, overall_status>>
    /\ UNCHANGED apiVars

Next == ProcessLine \/ Return

Spec == Init /\ [][Next]_vars

----------------------------------------------------------------------------
(* The request handlers over the database collections *)

\* find_one() returns None
NoDoc == [id |-> 0]

\* line_items of the documents posted in the model
InvoiceBodies ==
    { <<Item(<<97>>, 22, 106), Item(<<66>>, 20, 100)>> }
POBodies == { <<Item(<<65>>, 20, 100)>> }
GRBodies == { <<Item(<<65>>, 20, 100)>> }

EngineIdle ==
    /\ invoice = <<>> /\ po = <<>> /\ gr = <<>>
    /\ pc = "idle"
    /\ idx = 0
    /\ po_match = EngineStart.po_match
    /\ gr_match = EngineStart.gr_match
    /\ line_matches = EngineStart.line_matches
    /\ total_variance = EngineStart.total_variance
    /\ price_variance = EngineStart.price_variance
    /\ quantity_variance = EngineStart.quantity_variance
    /\ overall_status = EngineStart.overall_status
    /\ result = NoResult

InitApi == EngineIdle /\ ApiIdle

Stored == Len(invoices) + Len(purchase_orders) + Len(goods_receipts)

\* await db.<collection>.find_one({"id": id})
RECURSIVE FindFrom(_, _, _)
FindFrom(coll, id, k) ==
    IF k > Len(coll) THEN NoDoc
    ELSE IF coll[k].id = id THEN coll[k]
    ELSE FindFrom(coll, id, k + 1)

find_one(coll, id) == FindFrom(coll, id, 1)

\* all([invoice_doc, po_doc, gr_doc])
AllButGR(invoice_doc, po_doc, gr_doc) == invoice_doc # NoDoc /\ po_doc # NoDoc

AllFound(invoice_doc, po_doc, gr_doc) ==
    invoice_doc # NoDoc /\ po_doc # NoDoc /\ gr_doc # NoDoc

\* POST /api/invoices
create_invoice(body) ==
    /\ Stored < MaxDocs
    /\ invoices' = Append(invoices, [id |-> next_id, line_items |-> body])
    /\ next_id' = next_id + 1
    /\ response' = 200
    /\ UNCHANGED <<purchase_orders, goods_receipts, verification_results, req>>
    /\ UNCHANGED engineVars

\* POST /api/purchase-orders
create_purchase_order(body) ==
    /\ Stored < MaxDocs
    /\ purchase_orders' = Append(purchase_orders, [id |-> next_id, line_items |-> body])
    /\ next_id' = next_id + 1
    /\ response' = 200
    /\ UNCHANGED <<invoices, goods_receipts, verification_results, req>>
    /\ UNCHANGED engineVars

\* POST /api/goods-receipts
create_goods_receipt(body) ==
    /\ Stored < MaxDocs
    /\ goods_receipts' = Append(goods_receipts, [id |-> next_id, line_items |-> body])
    /\ next_id' = next_id + 1
    /\ response' = 200
    /\ UNCHANGED <<invoices, purchase_orders, verification_results, req>>
    /\ UNCHANGED engineVars

\* POST /api/verify, up to the first await: the ids of the request are 0 (no
\* such id) or ids handed out so far
verify_fetch_invoice(invoice_id, po_id, gr_id) ==
    /\ req.pc = "none"
    /\ Len(verification_results) < MaxVerifies
    /\ req' = [pc |-> "fetch_po",
               invoice_id |-> invoice_id, po_id |-> po_id, gr_id |-> gr_id,
               invoice_doc |-> find_one(invoices, invoice_id),
               po_doc |-> NoDoc, gr_doc |-> NoDoc]
    /\ UNCHANGED <<invoices, purchase_orders, goods_receipts, verification_results,
                   next_id, response>>
    /\ UNCHANGED engineVars

verify_fetch_po ==
    /\ req.pc = "fetch_po"
    /\ req' = [req EXCEPT !.pc = "fetch_gr",
                          !.po_doc = find_one(purchase_orders, req.po_id)]
    /\ UNCHANGED <<invoices, purchase_orders, goods_receipts, verification_results,
                   next_id, response>>
    /\ UNCHANGED engineVars

verify_fetch_gr ==
    /\ req.pc = "fetch_gr"
    /\ req' = [req EXCEPT !.pc = "check",
                          !.gr_doc = find_one(goods_receipts, req.gr_id)]
    /\ UNCHANGED <<invoices, purchase_orders, goods_receipts, verification_results,
                   next_id, response>>
    /\ UNCHANGED engineVars

\* the rest of the handler: the check, the conversion, the engine, the insert
verify_finish ==
    /\ req.pc = "check"
    /\ req' = [pc |-> "none"]
    /\ IF ~AllFound(req.invoice_doc, req.po_doc, req.gr_doc)
       THEN \* raise HTTPException(status_code=404, ...)
            /\ response' = 404
            /\ UNCHANGED <<verification_results, next_id>>
            /\ UNCHANGED engineVars
       ELSE IF NoDoc \in {req.invoice_doc, req.po_doc, req.gr_doc}
       THEN \* Invoice(**None) raises TypeError: internal server error
            /\ response' = 500
            /\ UNCHANGED <<verification_results, next_id>>
            /\ UNCHANGED engineVars
       ELSE LET acc == RunLines(EngineStart, req.invoice_doc.line_items,
                                req.po_doc.line_items, req.gr_doc.line_items, 1)
                res == MakeResult(acc)
            IN  /\ invoice' = req.invoice_doc.line_items
                /\ po' = req.po_doc.line_items
                /\ gr' = req.gr_doc.line_items
                /\ pc' = "done"
                /\ idx' = Len(req.invoice_doc.line_items)
                /\ po_match' = acc.po_match
                /\ gr_match' = acc.gr_match
                /\ line_matches' = acc.line_matches
                /\ total_variance' = acc.total_variance
                /\ price_variance' = acc.price_variance
                /\ quantity_variance' = acc.quantity_variance
                /\ overall_status' = acc.overall_status
                /\ result' = res
                /\ verification_results' =
                      Append(verification_results,
                             [id |-> next_id,
                              invoice_id |-> req.invoice_doc.id,
                              po_id |-> req.po_doc.id,
                              gr_id |-> req.gr_doc.id,
                              result |-> res])
                /\ next_id' = next_id + 1
                /\ response' = 200
    /\ UNCHANGED <<invoices, purchase_orders, goods_receipts>>

NextApi ==
    \/ \E body \in InvoiceBodies : create_invoice(body)
    \/ \E body \in POBodies : create_purchase_order(body)
    \/ \E body \in GRBodies : create_goods_receipt(body)
    \/ \E i, p, g \in 0..(next_id - 1) : verify_fetch_invoice(i, p, g)
    \/ verify_fetch_po
    \/ verify_fetch_gr
    \/ verify_finish

SpecApi == InitApi /\ [][NextApi]_vars

----------------------------------------------------------------------------
(* Vocabulary of the properties, stated on the documents and the result    *)

Statuses == {"pass", "warning", "fail"}
Rank(s) == CASE s = "pass" -> 0 [] s = "warning" -> 1 [] OTHER -> 2
MinOf(S) == CHOOSE x \in S : \A y \in S : x <= y

\* the lines of items whose description equals desc up to case
Candidates(items, desc) ==
    { j \in 1..Len(items) : Lower(items[j].description) = Lower(desc) }
First(items, desc) ==
    IF Candidates(items, desc) = {} THEN 0 ELSE MinOf(Candidates(items, desc))
Matched(i) ==
    /\ Candidates(po, invoice[i].description) # {}
    /\ Candidates(gr, invoice[i].description) # {}
POLine(i) == po[First(po, invoice[i].description)]
GRLine(i) == gr[First(gr, invoice[i].description)]
Lines == 1..Len(invoice)
Done == pc = "done"
Rec(i) == result.line_item_matches[i]
FivePct == <<5, 1>>
PriceOver(i) == RatGt(Rec(i).price_variance_pct, FivePct)
QtyOver(i) == RatGt(Rec(i).quantity_variance_pct, FivePct)
VariantLines == { i \in Lines : PriceOver(i) \/ QtyOver(i) }
AllMatched == \A i \in Lines : Matched(i)

\* threshold trips read off the documents: 20 * |x - y| > y is |x - y| / y > 0.05
PriceTrip(i) ==
    /\ POLine(i).unit_price > 0
    /\ 20 * Abs(invoice[i].unit_price - POLine(i).unit_price) > POLine(i).unit_price
QtyTrip(i) ==
    /\ GRLine(i).quantity > 0
    /\ 20 * Abs(invoice[i].quantity - GRLine(i).quantity) > GRLine(i).quantity
Trips ==
    Cardinality({ i \in Lines : Matched(i) /\ PriceTrip(i) })
    + Cardinality({ i \in Lines : Matched(i) /\ QtyTrip(i) })

RECURSIVE SumRat(_, _, _)
SumRat(recs, field, k) ==
    IF k = 0 THEN RatZero ELSE RatAdd(SumRat(recs, field, k - 1), recs[k][field])
RECURSIVE SumInt(_, _, _)
SumInt(recs, field, k) ==
    IF k = 0 THEN 0 ELSE SumInt(recs, field, k - 1) + recs[k][field]

\* items without the lines that repeat an earlier description (up to case)
RECURSIVE KeepFirst(_, _)
KeepFirst(items, k) ==
    IF k = 0 THEN <<>>
    ELSE IF First(items, items[k].description) = k
         THEN Append(KeepFirst(items, k - 1), items[k])
         ELSE KeepFirst(items, k - 1)

----------------------------------------------------------------------------
(* Properties of perform_three_way_match *)

\* C1: the returned overall_status is pass, warning or fail, and
\* line_item_matches has one record per invoice line, the i-th carrying the
\* description, quantity, unit price and amount of the i-th invoice line.
C1_ResultShape ==
    Done =>
        /\ result.overall_status \in Statuses
        /\ Len(result.line_item_matches) = Len(invoice)
        /\ \A i \in Lines :
              /\ Rec(i).description = invoice[i].description
              /\ Rec(i).invoice_qty = invoice[i].quantity
              /\ Rec(i).invoice_price = invoice[i].unit_price
              /\ Rec(i).invoice_amount = invoice[i].amount
C1_Witness ==
    /\ Done /\ Len(invoice) = 2 /\ invoice[1] # invoice[2]
    /\ Matched(1) /\ POLine(1).description # invoice[1].description

\* C2: an invoice line without a match in the PO or without one in the GR
\* makes the overall status fail, wherever it stands and whatever the other
\* lines' variances, and its record has status no_match.
C2_NoMatchFails ==
    Done =>
        \A i \in Lines :
            ~Matched(i) => /\ result.overall_status = "fail"
                           /\ Rec(i).status = "no_match"
C2_Witness ==
    /\ Done /\ Len(invoice) = 2
    /\ ~Matched(1) /\ Matched(2)
    /\ Rec(2).status \in {"price_variance", "quantity_variance"}

\* C3 as stated: with every line matched, exactly one variant line gives
\* warning and two or more give fail.
C3_AsStated ==
    (Done /\ AllMatched) =>
        /\ Cardinality(VariantLines) = 1 => result.overall_status = "warning"
        /\ Cardinality(VariantLines) >= 2 => result.overall_status = "fail"

\* C3 amended: with every line matched, exactly one variant line that
\* exceeds only one of the two thresholds gives warning; one variant line
\* that exceeds both, or two or more variant lines, give fail.
C3_VariantLines ==
    (Done /\ AllMatched) =>
        /\ (\E i \in Lines : VariantLines = {i} /\ ~(PriceOver(i) /\ QtyOver(i)))
              => result.overall_status = "warning"
        /\ (\E i \in Lines : VariantLines = {i} /\ PriceOver(i) /\ QtyOver(i))
              => result.overall_status = "fail"
        /\ Cardinality(VariantLines) >= 2 => result.overall_status = "fail"
C3_Witness ==
    /\ Done /\ AllMatched
    /\ \E i \in Lines : VariantLines = {i} /\ PriceOver(i) /\ QtyOver(i)
    /\ result.overall_status = "fail"

\* C4 as stated: a matched line's status is price_variance if price_diff
\* exceeds the tolerance, otherwise quantity_variance if qty_diff does,
\* otherwise pass.
C4_AsStated ==
    Done =>
        \A i \in Lines :
            Matched(i) =>
                Rec(i).status = IF PriceOver(i) THEN "price_variance"
                                ELSE IF QtyOver(i) THEN "quantity_variance"
                                ELSE "pass"

\* C4 amended: a matched line's status is quantity_variance if qty_diff
\* exceeds the tolerance, otherwise price_variance if price_diff does,
\* otherwise pass; a diff equal to the tolerance does not trip.
C4_LineStatus ==
    Done =>
        \A i \in Lines :
            Matched(i) =>
                Rec(i).status = IF QtyOver(i) THEN "quantity_variance"
                                ELSE IF PriceOver(i) THEN "price_variance"
                                ELSE "pass"
C4_Witness ==
    /\ Done
    /\ \E i \in Lines : /\ Matched(i) /\ PriceOver(i) /\ QtyOver(i)
                        /\ Rec(i).status = "quantity_variance"
    /\ \E j \in Lines : /\ Matched(j)
                        /\ Rec(j).price_variance_pct = FivePct
                        /\ Rec(j).quantity_variance_pct = FivePct
                        /\ Rec(j).status = "pass"

\* C5 as stated: for a matched line price_diff is |invoice price - PO price|
\* / PO price whenever the PO price is not 0 and 0 when it is 0, and
\* qty_diff likewise on the GR quantity (the record reports them times 100).
C5_AsStated ==
    Done =>
        \A i \in Lines :
            Matched(i) =>
                /\ Rec(i).price_variance_pct =
                      IF POLine(i).unit_price # 0
                      THEN Rat(100 * Abs(invoice[i].unit_price - POLine(i).unit_price),
                               POLine(i).unit_price)
                      ELSE RatZero
                /\ Rec(i).quantity_variance_pct =
                      IF GRLine(i).quantity # 0
                      THEN Rat(100 * Abs(invoice[i].quantity - GRLine(i).quantity),
                               GRLine(i).quantity)
                      ELSE RatZero

\* C5 amended: the ratio is taken whenever the PO price (the GR quantity)
\* is greater than 0, and the diff is 0 when it is 0 or negative.
C5_Diffs ==
    Done =>
        \A i \in Lines :
            Matched(i) =>
                /\ Rec(i).price_variance_pct =
                      IF POLine(i).unit_price > 0
                      THEN Rat(100 * Abs(invoice[i].unit_price - POLine(i).unit_price),
                               POLine(i).unit_price)
                      ELSE RatZero
                /\ Rec(i).quantity_variance_pct =
                      IF GRLine(i).quantity > 0
                      THEN Rat(100 * Abs(invoice[i].quantity - GRLine(i).quantity),
                               GRLine(i).quantity)
                      ELSE RatZero
C5_Witness ==
    /\ Done
    /\ \E i \in Lines : /\ Matched(i)
                        /\ POLine(i).unit_price < 0 /\ GRLine(i).quantity < 0
                        /\ invoice[i].unit_price # POLine(i).unit_price
                        /\ Rec(i).price_variance_pct = RatZero
                        /\ Rec(i).quantity_variance_pct = RatZero

\* C6: total_variance, price_variance and quantity_variance are the plain
\* sums over all invoice lines of the line's amount_diff, price_diff and
\* qty_diff; a no_match line reports 0 for all three and adds 0.
C6_Sums ==
    Done =>
        LET recs == result.line_item_matches
        IN  /\ result.total_variance = <<SumInt(recs, "amount_variance", Len(recs)), 1>>
            /\ RatScale(result.price_variance, 100)
                  = SumRat(recs, "price_variance_pct", Len(recs))
            /\ RatScale(result.quantity_variance, 100)
                  = SumRat(recs, "quantity_variance_pct", Len(recs))
            /\ \A i \in Lines :
                  IF Matched(i)
                  THEN Rec(i).amount_variance =
                          Abs(invoice[i].amount
                              - POLine(i).unit_price * GRLine(i).quantity)
                  ELSE /\ Rec(i).amount_variance = 0
                       /\ Rec(i).price_variance_pct = RatZero
                       /\ Rec(i).quantity_variance_pct = RatZero
C6_Witness ==
    /\ Done /\ Len(invoice) = 2
    /\ ~Matched(1) /\ Matched(2)
    /\ Rec(2).amount_variance > 0
    /\ RatGt(Rec(2).price_variance_pct, RatZero)
    /\ result.total_variance = <<Rec(2).amount_variance, 1>>

\* C7: each invoice line is compared with the lowest-index PO line and the
\* lowest-index GR line of its description (up to case); later lines of the
\* same description change neither the record nor the result.
C7_FirstMatch ==
    /\ (pc = "loop" /\ idx >= 1) =>
          /\ po_match = First(po, invoice[idx].description)
          /\ gr_match = First(gr, invoice[idx].description)
    /\ Done =>
          /\ result = perform_three_way_match(invoice, KeepFirst(po, Len(po)),
                                              KeepFirst(gr, Len(gr)))
          /\ \A i \in Lines :
                Matched(i) => /\ Rec(i).po_price = POLine(i).unit_price
                              /\ Rec(i).po_qty = POLine(i).quantity
                              /\ Rec(i).gr_qty = GRLine(i).quantity
C7_Witness ==
    /\ Done /\ Len(invoice) = 1 /\ Matched(1)
    /\ Cardinality(Candidates(po, invoice[1].description)) = 2
    /\ po[1].unit_price # po[2].unit_price
    /\ Rec(1).po_price = po[1].unit_price

\* C9: within one run the running overall status only moves along
\* pass -> warning -> fail; once fail it stays fail, and the returned status
\* is the running one.
C9_Monotonic ==
    [][ /\ Rank(overall_status') >= Rank(overall_status)
        /\ (overall_status = "fail" => overall_status' = "fail")
        /\ (pc' = "done" => result'.overall_status = overall_status) ]_vars
C9_Witness ==
    /\ pc = "loop" /\ idx = 2 /\ Len(invoice) = 2
    /\ ~Matched(1)
    /\ Matched(2) /\ PriceTrip(2) /\ QtyTrip(2)
    /\ overall_status = "fail"

\* C10: with T the number of threshold trips over the matched lines (a price
\* trip and a quantity trip of one line counted separately), the status is
\* pass exactly when no line is unmatched and T = 0 (equivalently every
\* record has status pass), warning exactly when no line is unmatched and
\* T = 1, and fail otherwise.
C10_StatusByTrips ==
    Done =>
        /\ result.overall_status = "pass" <=> (AllMatched /\ Trips = 0)
        /\ result.overall_status = "pass" <=> (\A i \in Lines : Rec(i).status = "pass")
        /\ result.overall_status = "warning" <=> (AllMatched /\ Trips = 1)
        /\ result.overall_status = "fail" <=> (~AllMatched \/ Trips >= 2)
C10_Witness ==
    /\ Done /\ Len(invoice) = 2 /\ AllMatched /\ Trips = 1
    /\ result.overall_status = "warning"

----------------------------------------------------------------------------
(* Property of the verify handler *)

Resolves(coll, id) == \E k \in 1..Len(coll) : coll[k].id = id
AllResolve ==
    /\ Resolves(invoices, req.invoice_id)
    /\ Resolves(purchase_orders, req.po_id)
    /\ Resolves(goods_receipts, req.gr_id)

\* C8: a verify request adds a verification result only if invoice_id, po_id
\* and gr_id each resolve to a stored document of its type; if one of them
\* does not, the request ends in the not-found error (404), the engine is
\* not invoked and the result store is unchanged.
C8_VerifyPrecondition ==
    [][ /\ verification_results' # verification_results =>
              /\ req.pc = "check" /\ AllResolve
              /\ Len(verification_results') = Len(verification_results) + 1
              /\ LET r == verification_results'[Len(verification_results')]
                 IN  /\ r.invoice_id = req.invoice_id
                     /\ r.po_id = req.po_id
                     /\ r.gr_id = req.gr_id
              /\ response' = 200
        /\ (req.pc = "check" /\ req'.pc = "none" /\ ~AllResolve) =>
              /\ response' = 404
              /\ verification_results' = verification_results
              /\ UNCHANGED engineVars ]_vars
C8_Witness ==
    /\ response = 404
    /\ Len(verification_results) = 1
    /\ req.pc = "none"

====
